---- MODULE Spec2Model ----
(***************************************************************************)
(* The video analysis pipeline of main.py: extract frames, fan the frames  *)
(* out to a process pool, collect the results in completion order, sort    *)
(* the accepted events by timestamp and write the reports.                 *)
(*                                                                         *)
(* The modules main.py imports (p_frame_extract, p_analysis,               *)
(* p_utility_function, p_write_reports) are modelled from their contracts: *)
(* extract_frames, analyze_frame_worker, log_parse_error and               *)
(* json2html_convert.                                                      *)
(***************************************************************************)
EXTENDS Integers, Sequences, FiniteSets, TLC

(* Bound of the model: the largest number of frames a video yields. *)
MaxFrames == 3

(* Configuration of main.py. *)
FRAME_INTERVAL == 3
USE_MOTION_DETECTION == TRUE
MOTION_THRESHOLD == 8000
MAX_WORKERS == 5

VARIABLES
    pc,          \* position of the main process in the __main__ block
    video,       \* the input video: readable or not, and its duration in seconds
    timestamps,  \* frame number -> timestamp, returned by extract_frames
    score,       \* frame number -> difference score against the previous frame
    frames,      \* the sorted list of frame files
    futures,     \* the futures dict, one record per submitted task
    events,      \* the accumulator of accepted events
    errors,      \* the error counter
    log,         \* lines of parse_errors.log
    printed,     \* the [OK]/[FAIL] progress lines
    jsonFile,    \* events_raw.json
    htmlFile,    \* events_report_table.html
    summary      \* the "Frames analyzed" / "Errors" lines

vars == <<pc, video, timestamps, score, frames, futures, events, errors, log,
          printed, jsonFile, htmlFile, summary>>

----------------------------------------------------------------------------
(* Data *)

(* The fixed event_type -> risk_level table of USER_CONTEXT. *)
EventTypes ==
    {"none", "human_presence", "person_in_distress", "fallen_person",
     "forced_entry", "door_tampering", "weapon_visible", "fire_smoke_visible",
     "camera_tampering"}

RiskLevels == {"low", "medium", "high"}

RiskOf(t) ==
    CASE t \in {"none", "human_presence"} -> "low"
      [] t \in {"person_in_distress", "fallen_person"} -> "medium"
      [] t \in {"forced_entry", "door_tampering", "weapon_visible",
                "fire_smoke_visible", "camera_tampering"} -> "high"
      [] OTHER -> "unmapped"

(* Python's None in the place of an event. *)
NoEvent ==
    [timestamp |-> -1, event_detected |-> FALSE, event_type |-> "null",
     risk_level |-> "null"]

(* What the backend can answer for one frame: a JSON object with the   *)
(* fields of the schema, text that is no JSON, or no answer at all.    *)
(* The free-text description plays no part in the pipeline's control.  *)
JsonResponses ==
    [kind : {"json"}, event_detected : BOOLEAN,
     event_type : EventTypes \cup {"loitering"}, risk_level : RiskLevels]

TextResponse ==
    [kind |-> "text", event_detected |-> FALSE, event_type |-> "null",
     risk_level |-> "null"]

Unreachable ==
    [kind |-> "unreachable", event_detected |-> FALSE, event_type |-> "null",
     risk_level |-> "null"]

(* Validation of a parsed response against the schema. *)
ValidResponse(r) ==
    /\ r.kind = "json"
    /\ r.event_type \in EventTypes
    /\ r.risk_level = RiskOf(r.event_type)
    /\ (r.event_detected => r.event_type # "none")

(* The answers the backend gives in the model: every risk level with one  *)
(* event type per risk level and with a type outside the enumeration, a   *)
(* detected event of type "none", text that is no JSON, and no answer.    *)
SampledTypes == {"none", "fallen_person", "forced_entry", "loitering"}

Responses ==
    {r \in JsonResponses :
        r.event_type \in SampledTypes /\ (r.event_type = "none" \/ r.event_detected)}
        \cup {TextResponse, Unreachable}

(* The (parsed, error) pair analyze_frame_worker returns for a frame. *)
analyze_frame_worker(f, ts, r) ==
    IF r.kind = "unreachable"
    THEN [raised |-> FALSE, parsed |-> NoEvent, error |-> "backend_unreachable"]
    ELSE IF r.kind = "text"
    THEN [raised |-> FALSE, parsed |-> NoEvent, error |-> "malformed_json"]
    ELSE IF ~ValidResponse(r)
    THEN [raised |-> FALSE, parsed |-> NoEvent, error |-> "schema_violation"]
    ELSE [raised |-> FALSE,
          parsed |-> [timestamp |-> ts[f], event_detected |-> r.event_detected,
                      event_type |-> r.event_type, risk_level |-> r.risk_level],
          error |-> "none"]

(* A future that holds an exception instead of a result. *)
RaisedOutcome == [raised |-> TRUE, parsed |-> NoEvent, error |-> "exception"]

NoOutcome == [raised |-> FALSE, parsed |-> NoEvent, error |-> "pending"]

NewFuture(f) ==
    [frame |-> f, state |-> "PENDING", outcome |-> NoOutcome, collected |-> FALSE]

(* extract_frames: one frame per sampled instant, numbered from 1. *)
FrameCount(v) == (v.duration \div FRAME_INTERVAL) + 1

TimestampMap(v) == [i \in 1..FrameCount(v) |-> (i - 1) * FRAME_INTERVAL]

(* sorted(listdir, key=read_num_in_filename): the frame numbers ascending. *)
RECURSIVE SortedFrames(_)
SortedFrames(S) ==
    IF S = {} THEN <<>>
    ELSE LET m == CHOOSE x \in S : \A y \in S : x <= y
         IN <<m>> \o SortedFrames(S \ {m})

(* events.sort(key=lambda e: e["timestamp"]): a stable insertion sort. *)
RECURSIVE InsertByTimestamp(_, _)
InsertByTimestamp(s, e) ==
    IF s = <<>> THEN <<e>>
    ELSE IF s[Len(s)].timestamp <= e.timestamp THEN Append(s, e)
    ELSE Append(InsertByTimestamp(SubSeq(s, 1, Len(s) - 1), e), s[Len(s)])

RECURSIVE SortPrefix(_, _)
SortPrefix(s, n) ==
    IF n = 0 THEN <<>> ELSE InsertByTimestamp(SortPrefix(s, n - 1), s[n])

Unsorted(s) == s

SortByTimestamp(s) == SortPrefix(s, Len(s))

(* "if parsed:" *)
AcceptAll(parsed) == TRUE

Accepted(parsed) == parsed # NoEvent

(* "errors += 1" *)
CountErrorTwice(n) == n + 2

CountError(n) == n + 1

(* log_parse_error appends one line to the log. *)
log_parse_error(l, f, e) == Append(l, [frame |-> f, error |-> e])

(* as_completed yields a future once it is finished. *)
YieldAny(fut) == TRUE

Completed(fut) == fut.state = "FINISHED"

(* Leaving the "with" block shuts the pool down with wait=True. *)
ExitWithoutWait(fs) == TRUE

ExitReady(fs) == \A i \in DOMAIN fs : fs[i].state = "FINISHED"

MarkCollected(fs, i) == [fs EXCEPT ![i].collected = TRUE]

(* The failure branch of the loop leaves the futures as they are. *)
RetryFailed(fs, i) == Append(MarkCollected(fs, i), NewFuture(fs[i].frame))

AfterFailure(fs, i) == MarkCollected(fs, i)

(* Content of the log before the run (the log is opened for append). *)
PriorLog == <<[frame |-> 0, error |-> "earlier_run"]>>

Durations == {FRAME_INTERVAL * k : k \in 0..(MaxFrames - 1)}

Videos ==
    {[readable |-> TRUE, duration |-> d] : d \in Durations}
        \cup {[readable |-> FALSE, duration |-> 0]}

(* The difference scores of a video's frames: at most one frame is just   *)
(* below the threshold, the frames before it are at the threshold and the *)
(* frames after it above.                                                 *)
ScoreProfiles(n) ==
    {[i \in 1..n |-> IF i = k THEN MOTION_THRESHOLD - 1
                     ELSE IF i < k THEN MOTION_THRESHOLD
                     ELSE MOTION_THRESHOLD + 1] : k \in 0..n}

NoFile == [written |-> FALSE, content |-> <<>>]

NoSummary == [analyzed |-> -1, errors |-> -1]

----------------------------------------------------------------------------
(* The program *)

Init ==
    /\ pc = "extract"
    /\ video \in Videos
    /\ timestamps = <<>>
    /\ score = <<>>
    /\ frames = <<>>
    /\ futures = <<>>
    /\ events = <<>>
    /\ errors = 0
    /\ log = PriorLog
    /\ printed = <<>>
    /\ jsonFile = NoFile
    /\ htmlFile = NoFile
    /\ summary = NoSummary

(* Line 117: extract_frames; an unreadable video is fatal. *)
Extract ==
    /\ pc = "extract"
    /\ \/ /\ video.readable
          /\ timestamps' = TimestampMap(video)
          /\ score' \in ScoreProfiles(FrameCount(video))
          /\ pc' = "list"
       \/ /\ ~video.readable
          /\ pc' = "fatal"
          /\ UNCHANGED <<timestamps, score>>
    /\ UNCHANGED <<video, frames, futures, events, errors, log, printed,
                   jsonFile, htmlFile, summary>>

(* Lines 121-126: every .jpg of the frames directory, sorted by number. *)
ListFrames ==
    /\ pc = "list"
    /\ frames' = SortedFrames(DOMAIN timestamps)
    /\ events' = <<>>
    /\ errors' = 0
    /\ pc' = "submit"
    /\ UNCHANGED <<video, timestamps, score, futures, log, printed, jsonFile,
                   htmlFile, summary>>

(* Lines 131-134: one executor.submit per frame of the list. *)
Submit ==
    /\ pc = "submit"
    /\ Len(futures) < Len(frames)
    /\ futures' = Append(futures, NewFuture(frames[Len(futures) + 1]))
    /\ pc' = IF Len(futures') = Len(frames) THEN "collect" ELSE "submit"
    /\ UNCHANGED <<video, timestamps, score, frames, events, errors, log,
                   printed, jsonFile, htmlFile, summary>>

PoolOpen == pc \in {"submit", "collect", "exit_pool", "unwind"}

Running == {i \in DOMAIN futures : futures[i].state = "RUNNING"}

(* A worker process of the pool takes a pending task. *)
StartTask(i) ==
    /\ PoolOpen
    /\ futures[i].state = "PENDING"
    /\ Cardinality(Running) < MAX_WORKERS
    /\ futures' = [futures EXCEPT ![i].state = "RUNNING"]
    /\ UNCHANGED <<pc, video, timestamps, score, frames, events, errors, log,
                   printed, jsonFile, htmlFile, summary>>

(* The worker returns its (parsed, error) pair. *)
FinishTask(i) ==
    /\ PoolOpen
    /\ futures[i].state = "RUNNING"
    /\ \E r \in Responses :
          futures' = [futures EXCEPT
                         ![i].state = "FINISHED",
                         ![i].outcome =
                             analyze_frame_worker(futures[i].frame, timestamps, r)]
    /\ UNCHANGED <<pc, video, timestamps, score, frames, events, errors, log,
                   printed, jsonFile, htmlFile, summary>>

(* The task ends with an exception, which the future keeps. *)
TaskRaises(i) ==
    /\ PoolOpen
    /\ futures[i].state = "RUNNING"
    /\ futures' = [futures EXCEPT ![i].state = "FINISHED",
                                  ![i].outcome = RaisedOutcome]
    /\ UNCHANGED <<pc, video, timestamps, score, frames, events, errors, log,
                   printed, jsonFile, htmlFile, summary>>

AllCollected(fs) == \A j \in DOMAIN fs : fs[j].collected

(* The loop goes on until as_completed has yielded every future. *)
StopAfterFirst(fs) == "exit_pool"

AfterCollect(fs) == IF AllCollected(fs) THEN "exit_pool" ELSE "collect"

(* Lines 136-142: a completed future whose result is an event. *)
CollectEvent(i) ==
    /\ pc = "collect"
    /\ ~futures[i].collected
    /\ Completed(futures[i])
    /\ ~futures[i].outcome.raised
    /\ Accepted(futures[i].outcome.parsed)
    /\ events' = Append(events, futures[i].outcome.parsed)
    /\ printed' = Append(printed, [mark |-> "OK", frame |-> futures[i].frame])
    /\ futures' = MarkCollected(futures, i)
    /\ pc' = AfterCollect(futures')
    /\ UNCHANGED <<video, timestamps, score, frames, errors, log, jsonFile,
                   htmlFile, summary>>

(* Lines 136-139, 143-146: a completed future whose result has no event. *)
CollectFailure(i) ==
    /\ pc = "collect"
    /\ ~futures[i].collected
    /\ Completed(futures[i])
    /\ ~futures[i].outcome.raised
    /\ ~Accepted(futures[i].outcome.parsed)
    /\ errors' = CountError(errors)
    /\ log' = log_parse_error(log, futures[i].frame, futures[i].outcome.error)
    /\ printed' = Append(printed, [mark |-> "FAIL", frame |-> futures[i].frame])
    /\ futures' = AfterFailure(futures, i)
    /\ pc' = AfterCollect(futures')
    /\ UNCHANGED <<video, timestamps, score, frames, events, jsonFile,
                   htmlFile, summary>>

(* Line 138: future.result() re-raises the task's exception; nothing *)
(* catches it, so it leaves the loop and the "with" block.           *)
CollectRaises(i) ==
    /\ pc = "collect"
    /\ ~futures[i].collected
    /\ Completed(futures[i])
    /\ futures[i].outcome.raised
    /\ futures' = MarkCollected(futures, i)
    /\ pc' = "unwind"
    /\ UNCHANGED <<video, timestamps, score, frames, events, errors, log,
                   printed, jsonFile, htmlFile, summary>>

(* End of the "with" block: shutdown(wait=True). *)
ExitPool ==
    /\ pc \in {"exit_pool", "unwind"}
    /\ ExitReady(futures)
    /\ pc' = IF pc = "unwind" THEN "aborted" ELSE "sort"
    /\ UNCHANGED <<video, timestamps, score, frames, futures, events, errors,
                   log, printed, jsonFile, htmlFile, summary>>

(* Line 148. *)
Sort ==
    /\ pc = "sort"
    /\ events' = SortByTimestamp(events)
    /\ pc' = "write_json"
    /\ UNCHANGED <<video, timestamps, score, frames, futures, errors, log,
                   printed, jsonFile, htmlFile, summary>>

(* Lines 152-153: open(OUTPUT_JSON, "w") and json.dump; the open fails *)
(* when the report path cannot be written.                             *)
WriteJSON ==
    /\ pc = "write_json"
    /\ \/ /\ jsonFile' = [written |-> TRUE, content |-> events]
          /\ pc' = "write_html"
       \/ /\ pc' = "fatal"
          /\ UNCHANGED jsonFile
    /\ UNCHANGED <<video, timestamps, score, frames, futures, events, errors,
                   log, printed, htmlFile, summary>>

(* Line 155: json2html_convert renders the JSON file. *)
WriteHTML ==
    /\ pc = "write_html"
    /\ htmlFile' = [written |-> TRUE, content |-> jsonFile.content]
    /\ pc' = "summary"
    /\ UNCHANGED <<video, timestamps, score, frames, futures, events, errors,
                   log, printed, jsonFile, summary>>

(* Lines 158-160. *)
Summary ==
    /\ pc = "summary"
    /\ summary' = [analyzed |-> Len(events), errors |-> errors]
    /\ pc' = "done"
    /\ UNCHANGED <<video, timestamps, score, frames, futures, events, errors,
                   log, printed, jsonFile, htmlFile>>

Next ==
    \/ Extract
    \/ ListFrames
    \/ Submit
    \/ \E i \in DOMAIN futures : StartTask(i)
    \/ \E i \in DOMAIN futures : FinishTask(i)
    \/ \E i \in DOMAIN futures : TaskRaises(i)
    \/ \E i \in DOMAIN futures : CollectEvent(i)
    \/ \E i \in DOMAIN futures : CollectFailure(i)
    \/ \E i \in DOMAIN futures : CollectRaises(i)
    \/ ExitPool
    \/ Sort
    \/ WriteJSON
    \/ WriteHTML
    \/ Summary

Spec == Init /\ [][Next]_vars

----------------------------------------------------------------------------
(* Properties *)

LogLinesOf(f) == Cardinality({k \in DOMAIN log : log[k].frame = f})

EventsOf(s, f) == Cardinality({k \in DOMAIN s : s[k].timestamp = timestamps[f]})

FuturesOf(f) == {i \in DOMAIN futures : futures[i].frame = f}

IsSorted(s) ==
    \A i, j \in DOMAIN s : i < j => s[i].timestamp <= s[j].timestamp

Succeeded(i) == futures[i].outcome.error = "none"

Failed(i) ==
    futures[i].outcome.error \in
        {"malformed_json", "schema_violation", "backend_unreachable"}

AfterPool ==
    pc \in {"sort", "write_json", "write_html", "summary", "done", "aborted"}
        \/ (pc = "fatal" /\ video.readable)

AllTasksFinished ==
    /\ Len(futures) = Len(frames)
    /\ \A i \in DOMAIN futures : futures[i].state = "FINISHED"

(* C1: the event list in the JSON report is sorted by timestamp ascending, *)
(* whatever the order in which the tasks completed; it is written only     *)
(* after every task has finished and holds the events of exactly the       *)
(* tasks that returned one.                                                *)
C1_ReportSorted ==
    jsonFile.written =>
        /\ IsSorted(jsonFile.content)
        /\ AllTasksFinished
        /\ Len(jsonFile.content) =
               Cardinality({i \in DOMAIN futures : Succeeded(i)})
        /\ \A i \in DOMAIN futures :
               Succeeded(i) =>
                   \E k \in DOMAIN jsonFile.content :
                       jsonFile.content[k] = futures[i].outcome.parsed

(* A report of two or more events whose tasks were collected out of order. *)
C1_Witness ==
    /\ jsonFile.written
    /\ Len(jsonFile.content) >= 2
    /\ \E a, b \in DOMAIN printed :
          /\ a < b
          /\ printed[a].mark = "OK"
          /\ printed[b].mark = "OK"
          /\ printed[a].frame > printed[b].frame

(* C2: a frame whose backend call returned non-JSON text has exactly one   *)
(* parse error line and no event once it is collected (none before); every *)
(* other collected frame has the outcome of its own result, and a parse    *)
(* failure never ends the loop: only an exception does, and past the loop  *)
(* every task has been collected.                                          *)
C2_NonJsonIsolated ==
    /\ \A i \in DOMAIN futures :
          futures[i].outcome.error = "malformed_json" =>
              /\ LogLinesOf(futures[i].frame) =
                     IF futures[i].collected THEN 1 ELSE 0
              /\ EventsOf(events, futures[i].frame) = 0
              /\ EventsOf(jsonFile.content, futures[i].frame) = 0
    /\ \A j \in DOMAIN futures :
          (futures[j].collected /\ ~futures[j].outcome.raised) =>
              /\ Succeeded(j) =>
                     /\ EventsOf(events, futures[j].frame) = 1
                     /\ LogLinesOf(futures[j].frame) = 0
              /\ Failed(j) =>
                     /\ EventsOf(events, futures[j].frame) = 0
                     /\ LogLinesOf(futures[j].frame) = 1
    /\ pc \in {"unwind", "aborted"} =>
          \E i \in DOMAIN futures :
              futures[i].collected /\ futures[i].outcome.raised
    /\ pc \in {"exit_pool", "sort", "write_json", "write_html", "summary", "done"} =>
          AllCollected(futures)

(* A finished run in which a non-JSON frame was collected before a frame *)
(* that gave an event.                                                   *)
C2_Witness ==
    /\ pc = "done"
    /\ \E a, b \in DOMAIN printed :
          /\ a < b
          /\ printed[a].mark = "FAIL"
          /\ printed[b].mark = "OK"
          /\ \E i \in FuturesOf(printed[a].frame) :
                futures[i].outcome.error = "malformed_json"

(* C3: the collection loop never raises: the pipeline is never unwinding *)
(* out of the pool with an exception, whatever way a task failed.        *)
C3_NeverPropagates == pc \notin {"unwind", "aborted"}

(* C4: when the run finishes over N frames of which k gave an event, the *)
(* JSON report holds k events, the log gained N-k lines, the error       *)
(* counter is N-k, the summary reports k and N-k, and every frame is in  *)
(* exactly one of the report and the log.                                *)
C4_CountsAddUp ==
    pc = "done" =>
        LET N == Len(frames)
            k == Cardinality({i \in DOMAIN futures : Succeeded(i)})
        IN /\ Len(jsonFile.content) = k
           /\ Len(log) - Len(PriorLog) = N - k
           /\ errors = N - k
           /\ summary = [analyzed |-> k, errors |-> N - k]
           /\ Len(jsonFile.content) + errors = N
           /\ \A f \in 1..N :
                  EventsOf(jsonFile.content, f) + LogLinesOf(f) = 1

(* A finished run over the largest frame list with one failure. *)
C4_Witness ==
    /\ pc = "done"
    /\ Len(frames) = MaxFrames
    /\ errors = 1
    /\ Len(jsonFile.content) = MaxFrames - 1

(* C5: once the dispatcher has left the pool, normally or with an      *)
(* exception, every frame's task has been submitted and has finished:  *)
(* no failure cancels or skips another task.                           *)
C5_NoCancellation ==
    AfterPool =>
        /\ AllTasksFinished
        /\ \A i \in DOMAIN futures : Succeeded(i) \/ Failed(i) \/ futures[i].outcome.raised

(* A run that left the pool with an exception, after which a task that *)
(* was never collected still ran to its result.                       *)
C5_Witness ==
    /\ pc = "aborted"
    /\ \E i, j \in DOMAIN futures :
          /\ futures[i].collected
          /\ futures[i].outcome.raised
          /\ ~futures[j].collected
          /\ Succeeded(j)

(* C6 as stated: the log and the reports are written only after all *)
(* tasks have finished.                                             *)
C6_AllFilesAfterWorkers ==
    (log # PriorLog \/ jsonFile.written \/ htmlFile.written) => AllTasksFinished

WorkerStep ==
    \E i \in DOMAIN futures :
        i \in DOMAIN futures' /\ futures'[i].state # futures[i].state

(* C6, amended: no worker step writes a file; the JSON and HTML reports   *)
(* are written only after all tasks have finished; a line is appended to  *)
(* the log only by the collection loop, for a frame whose own task has    *)
(* finished (other tasks may still be pending or running).                *)
C6_WritesByCoordinator ==
    [][/\ WorkerStep => UNCHANGED <<log, jsonFile, htmlFile>>
       /\ (jsonFile' # jsonFile \/ htmlFile' # htmlFile) => AllTasksFinished
       /\ log' # log =>
             /\ pc = "collect"
             /\ \E i \in DOMAIN futures :
                   /\ futures[i].state = "FINISHED"
                   /\ log' = Append(log, [frame |-> futures[i].frame,
                                          error |-> futures[i].outcome.error])]_vars

(* A log line written while another task is still running. *)
C6_Witness ==
    /\ Len(log) > Len(PriorLog)
    /\ \E i \in DOMAIN futures : futures[i].state = "RUNNING"

(* C7: a run that ends with a fatal I/O error has submitted no task. *)
C7_FatalBeforeDispatch == pc = "fatal" => Len(futures) = 0

(* C8: with motion detection enabled, no task is submitted for a frame   *)
(* whose score against its predecessor is below the threshold, and one   *)
(* is submitted for every frame at or above it.                          *)
C8_LowMotionExcluded ==
    USE_MOTION_DETECTION =>
        /\ \A i \in DOMAIN futures :
              futures[i].frame > 1 => score[futures[i].frame] >= MOTION_THRESHOLD
        /\ pc = "collect" =>
              \A f \in 2..Len(frames) :
                  score[f] >= MOTION_THRESHOLD => FuturesOf(f) # {}

(* C9: every event in the accumulator and in the JSON report has an event *)
(* type of the enumeration and the risk level the table gives for it; a   *)
(* collected frame whose response broke the schema has one parse error    *)
(* line and no event.                                                     *)
C9_RiskMatchesMapping ==
    /\ \A k \in DOMAIN events :
          /\ events[k].event_type \in EventTypes
          /\ events[k].risk_level = RiskOf(events[k].event_type)
    /\ \A k \in DOMAIN jsonFile.content :
          /\ jsonFile.content[k].event_type \in EventTypes
          /\ jsonFile.content[k].risk_level = RiskOf(jsonFile.content[k].event_type)
    /\ \A i \in DOMAIN futures :
          (futures[i].collected /\ futures[i].outcome.error = "schema_violation") =>
              /\ LogLinesOf(futures[i].frame) = 1
              /\ EventsOf(events, futures[i].frame) = 0

(* A report with a medium-risk and a high-risk event, written in a run in *)
(* which a response that broke the schema was collected.                  *)
C9_Witness ==
    /\ jsonFile.written
    /\ \E a, b \in DOMAIN jsonFile.content :
          /\ jsonFile.content[a].risk_level = "medium"
          /\ jsonFile.content[b].risk_level = "high"
    /\ \E i \in DOMAIN futures :
          futures[i].collected /\ futures[i].outcome.error = "schema_violation"

(* C10: no frame has more than one task, and once the submissions are *)
(* over every frame of the list has exactly one, whatever its outcome. *)
C10_SingleAttempt ==
    /\ \A f \in 1..Len(frames) : Cardinality(FuturesOf(f)) <= 1
    /\ \A i \in DOMAIN futures : futures[i].frame \in 1..Len(frames)
    /\ (pc \notin {"extract", "list", "submit"} /\ video.readable) =>
          \A f \in 1..Len(frames) : Cardinality(FuturesOf(f)) = 1

(* A finished run in which a frame failed and was not submitted again. *)
C10_Witness ==
    /\ pc = "done"
    /\ Len(frames) >= 2
    /\ \E i \in DOMAIN futures : Failed(i)
    /\ Len(futures) = Len(frames)

====
